---- MODULE Spec2Model ----
(***************************************************************************)
(* A model of the Gitea V1 adapter of vssue                                *)
(* (packages/@vssue/api-gitea-v1) and of the PKCE code-verifier generator. *)
(*                                                                         *)
(* Three specifications share the variables:                               *)
(*   SpecVerifier  generateCodeVerifier applied to bounded inputs          *)
(*   SpecAuth      one redirect/callback exchange in the browser           *)
(*   SpecApi       one adapter call at a time against the HTTP transport   *)
(***************************************************************************)
EXTENDS Integers, Sequences, FiniteSets, TLC

VARIABLES
    \* ---- generateCodeVerifier ----
    hasWindow,      \* typeof window !== 'undefined'
    lengthArg,      \* the argument: [given |-> BOOLEAN, value |-> Nat]
    randomArr,      \* what window.crypto.getRandomValues filled in
    cvIndices,      \* the indices i % len used on validChars, in order
    codeVerifier,   \* the returned string, as a sequence of characters
    cvPc,           \* "input" | "returned"
    \* ---- browser and OAuth exchange ----
    href,           \* window.location.href, a sequence of URL tokens
    hrefAtCall,     \* window.location.href when handleAuth was entered
    replaced,       \* the URLs passed to window.history.replaceState
    authorize,      \* the authorize request of redirectAuth (or NoRequest)
    authPc,         \* "page" | "provider" | "callback" | "awaitToken" | "done"
    authResult,     \* what handleAuth settled with
    \* ---- adapter configuration and HTTP transport ----
    proxy,          \* "function" | "string": the type of the proxy option
    sent,           \* every request handed to this.$http, in order
    call,           \* the adapter call in progress
    commentsRaw,    \* response.data of getComments (mutated by the renders)
    pending,        \* indices of the render requests still in flight
    completed,      \* indices of the render requests, in completion order
    result          \* how the call's promise settled

verifierVars == <<hasWindow, lengthArg, randomArr, cvIndices, codeVerifier, cvPc>>
authVars == <<href, hrefAtCall, replaced, authorize, authPc, authResult>>
apiVars == <<call, commentsRaw, pending, completed, result>>
vars == <<verifierVars, authVars, apiVars, proxy, sent>>

(***************************************************************************)
(* generateCodeVerifier                                                    *)
(***************************************************************************)

\* default value of the `length` parameter
DefaultLength == 43
\* lower and upper clamp of len
MinLen == 43
MaxLen == 128
\* a Uint8Array element is a byte
ByteRange == 256

\* bounds of the inputs explored
MaxRequestedLength == 130
MaxSeed == 3
MaxStride == 2

validChars ==
    << "A","B","C","D","E","F","G","H","I","J","K","L","M",
       "N","O","P","Q","R","S","T","U","V","W","X","Y","Z",
       "a","b","c","d","e","f","g","h","i","j","k","l","m",
       "n","o","p","q","r","s","t","u","v","w","x","y","z",
       "0","1","2","3","4","5","6","7","8","9","-",".","_","~" >>

\* the text JavaScript appends for `'' + undefined`
UndefinedText == << "u","n","d","e","f","i","n","e","d" >>

\* validChars[i] with JavaScript's 0-based indexing: a character inside the
\* string, undefined outside of it
CharAt(i) == IF i < Len(validChars) THEN << validChars[i + 1] >> ELSE UndefinedText

\* let len = length; if (len < 43) len = 43; if (len > 128) len = 128
ClampLen(length) ==
    IF length < MinLen THEN MinLen
    ELSE IF length > MaxLen THEN MaxLen
    ELSE length

\* the index used for one random byte
IndexOf(i, len) == i % len

\* for (const i of randomArr) codeVerifier += validChars[i % len]
RECURSIVE AppendChars(_, _, _)
AppendChars(arr, len, k) ==
    IF k > Len(arr) THEN << >>
    ELSE CharAt(IndexOf(arr[k], len)) \o AppendChars(arr, len, k + 1)

\* the bytes getRandomValues may produce: arithmetic progressions modulo 256,
\* which reach every byte value, chosen by a seed and a stride
Seeds == { (s * 67) % ByteRange : s \in 0..MaxSeed }
Strides == { (d * 37) % ByteRange : d \in 0..MaxStride }
RandomValues(n, seed, stride) ==
    [k \in 1..n |-> (seed + (k - 1) * stride) % ByteRange]

LengthArgs ==
    { [given |-> FALSE, value |-> 0] }
        \cup { [given |-> TRUE, value |-> n] : n \in 0..MaxRequestedLength }

LengthOf(arg) == IF arg.given THEN arg.value ELSE DefaultLength

generateCodeVerifier ==
    /\ cvPc = "input"
    /\ cvPc' = "returned"
    /\ IF ~hasWindow
       THEN \* return null
            /\ codeVerifier' = << >>
            /\ UNCHANGED <<randomArr, cvIndices>>
       ELSE LET len == ClampLen(LengthOf(lengthArg)) IN
            \E seed \in Seeds, stride \in Strides :
               /\ randomArr' = RandomValues(len, seed, stride)
               /\ cvIndices' = [k \in 1..len |-> IndexOf(randomArr'[k], len)]
               /\ codeVerifier' = AppendChars(randomArr', len, 1)
    /\ UNCHANGED <<hasWindow, lengthArg>>
    /\ UNCHANGED <<authVars, apiVars, proxy, sent>>

(***************************************************************************)
(* Adapter configuration (the constructor's options)                       *)
(***************************************************************************)

baseURL == "https://try.gitea.io"
state == "st"
clientId == "cid"
clientSecret == "secret"
ProxyOrigin == "https://proxy.example"
ProxyTypes == {"function", "string"}

\* an absolute or relative URL handed to the transport: origin "" is relative
URL(origin, path) == [origin |-> origin, path |-> path]

\* concatURL of @vssue/utils: joins a base and a path with one slash
concatURL(base, path) == URL(base, "/" \o path)

\* this.proxy when it is a string, this.proxy(url) when it is a function
ProxyString == URL(ProxyOrigin, "/")
ProxyFunction(url) == URL(ProxyOrigin, "/?url=" \o url.origin \o url.path)

\* axios.create({ baseURL: concatURL(baseURL, 'api/v1') }): a relative url is
\* resolved against the instance's baseURL, an absolute one is used as it is
httpBaseURL == concatURL(baseURL, "api/v1")
Resolve(url) ==
    IF url.origin = "" THEN URL(httpBaseURL.origin, httpBaseURL.path \o "/" \o url.path)
    ELSE url

\* a request handed to this.$http
Request(op, method, url, redirectUri, text) ==
    [op |-> op, method |-> method, url |-> Resolve(url), redirect_uri |-> redirectUri,
     text |-> text]

(***************************************************************************)
(* Browser URLs and the query-string utilities of @vssue/utils             *)
(***************************************************************************)

\* a URL of the browser is a sequence of tokens:
\*   <<base, "?", key, "=", value, "&", key, "=", value, "#", fragment>>
PageBase == "https://blog.example/post"
Param(k, v) == [key |-> k, value |-> v]

\* bound on the number of query parameters of the page itself
MaxParams == 2

ParamKeys == {"page", "lang", "ref"}
ParamValues == {"1", "2"}
Hashes == { << >>, << "#", "top" >> }

RECURSIVE DistinctKeys(_)
DistinctKeys(q) ==
    IF Len(q) <= 1 THEN TRUE
    ELSE /\ \A i \in 2..Len(q) : q[i].key # q[1].key
         /\ DistinctKeys(Tail(q))

PageQueries ==
    { q \in UNION { [1..n -> { Param(k, v) : k \in ParamKeys, v \in ParamValues }]
                    : n \in 0..MaxParams } : DistinctKeys(q) }

\* index of the first token equal to t, 0 when there is none
RECURSIVE IndexFrom(_, _, _)
IndexFrom(toks, t, i) ==
    IF i > Len(toks) THEN 0
    ELSE IF toks[i] = t THEN i
    ELSE IndexFrom(toks, t, i + 1)
IndexOfToken(toks, t) == IndexFrom(toks, t, 1)

\* window.location.hash: the fragment with its '#', '' when there is none
LocationHash(u) ==
    LET h == IndexOfToken(u, "#") IN
    IF h = 0 THEN << >> ELSE SubSeq(u, h, Len(u))

\* window.location.search: the query with its '?', '' when there is none
LocationSearch(u) ==
    LET h == IndexOfToken(u, "#")
        noHash == IF h = 0 THEN u ELSE SubSeq(u, 1, h - 1)
        q == IndexOfToken(noHash, "?")
    IN  IF q = 0 THEN << >> ELSE SubSeq(noHash, q, Len(noHash))

\* getCleanURL: the URL without its query and without its fragment
getCleanURL(u) ==
    LET h == IndexOfToken(u, "#")
        noHash == IF h = 0 THEN u ELSE SubSeq(u, 1, h - 1)
        q == IndexOfToken(noHash, "?")
    IN  IF q = 0 THEN noHash ELSE SubSeq(noHash, 1, q - 1)

\* parseQuery: the parameters of a search string, in order of appearance
RECURSIVE parseQuery(_)
parseQuery(search) ==
    IF Len(search) < 3 THEN << >>
    ELSE IF search[1] \in {"?", "&"} THEN parseQuery(Tail(search))
    ELSE IF search[2] = "=" THEN
         << Param(search[1], search[3]) >> \o parseQuery(SubSeq(search, 4, Len(search)))
    ELSE parseQuery(Tail(search))

\* buildQuery: key=value joined by '&'
RECURSIVE buildQuery(_)
buildQuery(query) ==
    IF query = << >> THEN << >>
    ELSE << query[1].key, "=", query[1].value >>
         \o (IF Len(query) > 1 THEN << "&" >> ELSE << >>)
         \o buildQuery(Tail(query))

\* buildURL: the url followed by '?' and the query, the bare url for no query
buildURL(url, query) ==
    IF query = << >> THEN url ELSE url \o << "?" >> \o buildQuery(query)

\* query[key] of the parsed object: undefined is the absent parameter
Has(query, key) == \E i \in 1..Len(query) : query[i].key = key
Get(query, key) == query[CHOOSE i \in 1..Len(query) : query[i].key = key].value

\* delete query[key]
Delete(query, key) == SelectSeq(query, LAMBDA p : p.key # key)

(***************************************************************************)
(* The OAuth2 redirect/callback exchange                                   *)
(***************************************************************************)

NoAuthorize == [url |-> URL("", ""), client_id |-> "", redirect_uri |-> << >>,
                response_type |-> "", state |-> ""]

Pending == [kind |-> "pending", value |-> "none"]
Resolved(v) == [kind |-> "resolved", value |-> v]
Rejected(e) == [kind |-> "rejected", value |-> e]

\* the query a visitor can arrive with besides the page's own parameters: a
\* plain visit, or a link carrying code and/or state that no exchange of this
\* adapter produced
ArrivalParams ==
    { << >>,
      << Param("code", "c0") >>,
      << Param("state", state) >>,
      << Param("code", "c0"), Param("state", "evil") >>,
      << Param("code", "c0"), Param("state", state) >>,
      << Param("state", state), Param("code", "c0") >>,
      << Param("code", ""), Param("state", state) >> }

\* the provider appends its parameters to the query of the redirect_uri it
\* was given, in front of the fragment
AppendParams(u, params) ==
    getCleanURL(u)
        \o LocationSearch(u)
        \o (IF LocationSearch(u) = << >> THEN << "?" >> ELSE << "&" >>)
        \o buildQuery(params)
        \o LocationHash(u)

\* redirectAuth: window.location.href = buildURL(<authorize endpoint>, {...})
redirectAuthRequest(location) ==
    [url |-> concatURL(baseURL, "login/oauth/authorize"),
     client_id |-> clientId,
     redirect_uri |-> location,
     response_type |-> "code",
     state |-> state]

AuthorizePage == << "https://try.gitea.io/login/oauth/authorize" >>

\* the visitor starts the login from a page, once handleAuth has run on it
redirectAuth ==
    /\ authPc = "idle"
    /\ authorize = NoAuthorize
    /\ ~Has(parseQuery(LocationSearch(href)), "code")
    /\ ~Has(parseQuery(LocationSearch(href)), "state")
    /\ authorize' = redirectAuthRequest(href)
    /\ href' = AuthorizePage
    /\ authPc' = "provider"
    /\ UNCHANGED <<hrefAtCall, replaced, authResult, proxy, sent>>
    /\ UNCHANGED <<verifierVars, apiVars>>

\* the provider redirects back: with a code when the user grants, with an
\* error when the user denies; the state is echoed
ProviderRedirect ==
    /\ authPc = "provider"
    /\ \E granted \in BOOLEAN :
         href' = AppendParams(authorize.redirect_uri,
                    IF granted
                    THEN << Param("code", "c1"), Param("state", authorize.state) >>
                    ELSE << Param("error", "access_denied"),
                            Param("state", authorize.state) >>)
    /\ authPc' = "loaded"
    /\ UNCHANGED <<hrefAtCall, replaced, authorize, authResult, proxy, sent>>
    /\ UNCHANGED <<verifierVars, apiVars>>

\* if (query.code): present and not the empty string
HasCode(query) == Has(query, "code") /\ Get(query, "code") # ""

\* query.state !== this.state, negated: an absent state is undefined
StateMatchesAlways(query) == TRUE
StateMatches(query) == Has(query, "state") /\ Get(query, "state") = state

\* delete query.code; delete query.state
DeleteCodeOnly(query) == Delete(query, "code")
DeleteCodeAndState(query) == Delete(Delete(query, "code"), "state")

\* window.location.href as getAccessToken reads it: handleAuth calls
\* replaceState before getAccessToken
LocationBeforeReplace(atEntry, afterReplace) == atEntry
LocationAtTokenRequest(atEntry, afterReplace) == afterReplace

\* getAccessToken: the proxied URL of the token endpoint and the form body
getAccessTokenURL ==
    LET originalURL == concatURL(baseURL, "login/oauth/access_token") IN
    IF proxy = "function" THEN ProxyFunction(originalURL) ELSE ProxyString

getAccessToken(code, location) ==
    Request("getAccessToken", "POST", getAccessTokenURL, location, code)

\* handleAuth up to its await: parse, check, clean the URL, send the request
handleAuth ==
    /\ authPc = "loaded"
    /\ hrefAtCall' = href
    /\ LET query == parseQuery(LocationSearch(href)) IN
       IF HasCode(query)
       THEN IF ~StateMatches(query)
            THEN /\ authResult' = Resolved("null")
                 /\ authPc' = "idle"
                 /\ UNCHANGED <<href, replaced, sent>>
            ELSE LET code == Get(query, "code")
                     replaceURL == buildURL(getCleanURL(href), DeleteCodeAndState(query))
                                       \o LocationHash(href)
                 IN  /\ href' = replaceURL
                     /\ replaced' = Append(replaced, replaceURL)
                     /\ sent' = Append(sent,
                            getAccessToken(code, LocationAtTokenRequest(href, replaceURL)))
                     /\ authResult' = Pending
                     /\ authPc' = "awaitToken"
       ELSE /\ authResult' = Resolved("null")
            /\ authPc' = "idle"
            /\ UNCHANGED <<href, replaced, sent>>
    /\ UNCHANGED <<authorize, proxy>>
    /\ UNCHANGED <<verifierVars, apiVars>>

\* the token request settles: return data.access_token, or the rejection of
\* this.$http.post passes through
TokenResponse ==
    /\ authPc = "awaitToken"
    /\ \E ok \in BOOLEAN :
         authResult' = IF ok THEN Resolved("token") ELSE Rejected("error")
    /\ authPc' = "done"
    /\ UNCHANGED <<href, hrefAtCall, replaced, authorize, proxy, sent>>
    /\ UNCHANGED <<verifierVars, apiVars>>

(***************************************************************************)
(* The HTTP transport (axios) and the values the server answers with       *)
(***************************************************************************)

owner == "owner"
repo == "repo"
labels == << "Vssue" >>

\* bounds of the server's data
MaxIssueId == 2
MaxComments == 3

Null == [type |-> "null"]
Bool(b) == [type |-> "boolean", val |-> b]
Text(s) == [type |-> "string", val |-> s]

\* the statuses the server answers with
Statuses == {200, 204, 403, 404, 500}

\* what this.$http settles with: a response with a status, or no response
Answer(status, data) == [response |-> TRUE, status |-> status, data |-> data]
NetworkError == [response |-> FALSE, status |-> 0, data |-> Null]

\* axios' default validateStatus: the instance is created without one
validateStatus(status) == status >= 200 /\ status < 300
Fulfilled(o) == o.response /\ validateStatus(o.status)

\* the error axios rejects with: e.response is set when the server answered
ErrorOf(o) == [type |-> "error", response |-> o.response, status |-> o.status]

\* sequences of n distinct elements of S
RECURSIVE DistinctSeqs(_, _)
DistinctSeqs(S, n) ==
    IF n = 0 THEN { << >> }
    ELSE UNION { { Append(q, x) : x \in S \ { q[i] : i \in 1..Len(q) } }
                 : q \in DistinctSeqs(S, n - 1) }

\* the raw JSON of the Gitea API
RawUser(n) == [login |-> "user" \o ToString(n), avatar_url |-> "avatar" \o ToString(n)]
RawIssue(n) == [number |-> n, title |-> "title" \o ToString(n),
                body |-> "issue body " \o ToString(n)]
NoHtml == "undefined"
RawComment(n) == [id |-> n, body |-> "**comment " \o ToString(n) \o "**",
                  body_html |-> NoHtml, user |-> RawUser(n),
                  created_at |-> "2019-01-01", updated_at |-> "2019-01-02",
                  reactions |-> NoHtml]

\* the server's markdown renderer
Render(markdown) == "<p>" \o markdown \o "</p>"

\* the answer to the issue listing: Gitea answers with a bare JSON array; the
\* code reads `size` and `values`, the fields of a paged answer
IssueLists ==
    UNION { DistinctSeqs({ RawIssue(n) : n \in 1..MaxIssueId }, k) : k \in 0..MaxIssueId }
ListAnswers ==
    { [shape |-> sh, items |-> l] : sh \in {"array", "paged"}, l \in IssueLists }

CommentLists ==
    UNION { DistinctSeqs({ RawComment(n) : n \in 1..MaxComments }, k)
            : k \in 0..MaxComments }

(***************************************************************************)
(* utils.ts                                                                *)
(***************************************************************************)

normalizeUser(user) ==
    [username |-> user.login,
     avatar |-> user.avatar_url,
     homepage |-> concatURL(baseURL, user.login)]

normalizeIssue(issue) ==
    [type |-> "issue",
     id |-> issue.number,
     title |-> issue.title,
     content |-> issue.body,
     link |-> concatURL(baseURL,
                 owner \o "/" \o repo \o "/issues/" \o ToString(issue.number))]

normalizeComment(comment) ==
    [type |-> "comment",
     id |-> comment.id,
     content |-> comment.body,
     contentRaw |-> comment.body,
     author |-> normalizeUser(comment.user),
     createdAt |-> comment.created_at,
     updatedAt |-> comment.updated_at,
     reactions |-> comment.reactions]

(***************************************************************************)
(* The adapter's calls: index.ts                                           *)
(***************************************************************************)

\* apiURL: the proxied absolute URL when proxy is a function, else the url
\* as given, relative to the baseURL of this.$http
apiURL(url) ==
    IF proxy = "function"
    THEN ProxyFunction(concatURL(baseURL, "api/v1/" \o url))
    ELSE URL("", url)

NoAnswer == [response |-> FALSE, status |-> -1, data |-> Null]
IdleCall == [op |-> "none", stage |-> "idle", answer |-> NoAnswer, failed |-> {}]

IssuesPath == "repos/" \o owner \o "/" \o repo \o "/issues"

\* the part of every call up to its first await: one request is sent
Start(op, method, url) ==
    /\ call' = [IdleCall EXCEPT !.op = op, !.stage = "awaitResponse"]
    /\ sent' = Append(sent, Request(op, method, apiURL(url), << >>, ""))
    /\ UNCHANGED <<commentsRaw, pending, completed, result, proxy>>
    /\ UNCHANGED <<verifierVars, authVars>>

getUser ==
    /\ call.stage = "idle"
    /\ Start("getUser", "GET", "user")

\* the issueId argument: absent, or a number; `if (issueId)` takes 0 as absent
IssueIdArgs ==
    { [given |-> FALSE, value |-> 0] }
        \cup { [given |-> TRUE, value |-> n] : n \in 0..MaxIssueId }
Truthy(arg) == arg.given /\ arg.value # 0

getIssue ==
    /\ call.stage = "idle"
    /\ \E issueId \in IssueIdArgs :
        IF Truthy(issueId)
        THEN Start("getIssueById", "GET", IssuesPath \o "/" \o ToString(issueId.value))
        ELSE Start("getIssueByTitle", "GET", IssuesPath)

postIssue ==
    /\ call.stage = "idle"
    /\ Start("postIssue", "POST", IssuesPath)

getComments ==
    /\ call.stage = "idle"
    /\ \E issueId \in 1..MaxIssueId :
        Start("getComments", "GET", IssuesPath \o "/" \o ToString(issueId) \o "/comments")

postComment ==
    /\ call.stage = "idle"
    /\ \E issueId \in 1..MaxIssueId :
        Start("postComment", "POST", IssuesPath \o "/" \o ToString(issueId) \o "/comments")

putComment ==
    /\ call.stage = "idle"
    /\ \E issueId \in 1..MaxIssueId, commentId \in 1..MaxComments :
        Start("putComment", "PATCH",
              IssuesPath \o "/" \o ToString(issueId) \o "/comments/" \o ToString(commentId))

deleteComment ==
    /\ call.stage = "idle"
    /\ \E issueId \in 1..MaxIssueId, commentId \in 1..MaxComments :
        Start("deleteComment", "DELETE",
              IssuesPath \o "/" \o ToString(issueId) \o "/comments/" \o ToString(commentId))

getMarkdownContent ==
    /\ call.stage = "idle"
    /\ Start("getMarkdownContent", "POST", "markdown")

\* what the server can put in a 2xx answer to each call
DataFor(op) ==
    CASE op = "getUser" -> { RawUser(n) : n \in 1..MaxIssueId }
      [] op \in {"getIssueById", "postIssue"} -> { RawIssue(n) : n \in 1..MaxIssueId }
      [] op = "getIssueByTitle" -> ListAnswers
      [] op = "getComments" -> CommentLists
      [] op \in {"postComment", "putComment"} -> { RawComment(n) : n \in 1..MaxComments }
      [] op = "getMarkdownContent" -> { Text(Render("**text**")) }
      [] OTHER -> { Null }

AnswersFor(op) ==
    { NetworkError }
        \cup { Answer(s, Null) : s \in { t \in Statuses : ~validateStatus(t) } }
        \cup { Answer(s, d) : s \in { t \in Statuses : validateStatus(t) }, d \in DataFor(op) }

\* catch (e): e.response && e.response.status === 404
IsAnyError(e) == TRUE
IsNotFound(e) == e.response /\ e.status = 404

getIssueByIdSettle(o) ==
    IF Fulfilled(o) THEN Resolved(normalizeIssue(o.data))
    ELSE IF IsNotFound(ErrorOf(o)) THEN Resolved(Null)
    ELSE Rejected(ErrorOf(o))

\* data.size > 0: an array has no `size`, and undefined > 0 is false
SizeGreaterThanZero(data) == data.shape = "paged" /\ Len(data.items) > 0
\* data.values[0]
FirstValue(data) == data.items[1]

getIssueByTitleSettle(o) ==
    IF Fulfilled(o)
    THEN IF SizeGreaterThanZero(o.data)
         THEN Resolved(normalizeIssue(FirstValue(o.data)))
         ELSE Resolved(Null)
    ELSE Rejected(ErrorOf(o))

\* return status === 204, once this.$http.delete has fulfilled
deleteCommentSettle(o) ==
    IF Fulfilled(o) THEN Resolved(Bool(o.status = 204)) ELSE Rejected(ErrorOf(o))

Settle(op, o) ==
    CASE op = "getIssueById" -> getIssueByIdSettle(o)
      [] op = "getIssueByTitle" -> getIssueByTitleSettle(o)
      [] op = "deleteComment" -> deleteCommentSettle(o)
      [] ~Fulfilled(o) -> Rejected(ErrorOf(o))
      [] op = "getUser" -> Resolved(normalizeUser(o.data))
      [] op = "postIssue" -> Resolved(normalizeIssue(o.data))
      [] op = "putComment" -> Resolved(normalizeComment(o.data))
      [] op = "getMarkdownContent" -> Resolved(o.data)
      [] OTHER -> Rejected(ErrorOf(o))

\* data: commentsRaw.map(item => normalizeComment(item, this.baseURL))
CommentsData(raw, order) ==
    [i \in 1..Len(raw) |-> normalizeComment(raw[i])]

getCommentsResult(raw, order) ==
    [type |-> "comments", count |-> 0, page |-> 0, perPage |-> 0,
     data |-> CommentsData(raw, order)]

\* what the call resolves with once the renders are done
RenderedResult(op, raw, order) ==
    IF op = "getComments" THEN getCommentsResult(raw, order)
    ELSE normalizeComment(raw[1])

\* await Promise.all(getCommentsMeta) resumes when nothing is in flight
AnySettled(inFlight) == TRUE
AllSettled(inFlight) == inFlight = {}

\* the render request of getMarkdownContent for one comment
RenderRequest(comment) ==
    Request("getMarkdownContent", "POST", apiURL("markdown"), << >>, comment.body)

\* the answer to the first request of the call arrives
Respond ==
    /\ call.stage = "awaitResponse"
    /\ \E o \in AnswersFor(call.op) :
         IF call.op \in {"getComments", "postComment"} /\ Fulfilled(o)
         THEN \* every render request is started in the same turn
              LET raw == IF call.op = "getComments" THEN o.data ELSE << o.data >> IN
              /\ commentsRaw' = raw
              /\ sent' = sent \o [i \in 1..Len(raw) |-> RenderRequest(raw[i])]
              /\ pending' = 1..Len(raw)
              /\ IF Len(raw) = 0
                 THEN /\ result' = Resolved(RenderedResult(call.op, raw, << >>))
                      /\ call' = [call EXCEPT !.stage = "settled", !.answer = o]
                 ELSE /\ result' = result
                      /\ call' = [call EXCEPT !.stage = "awaitRender", !.answer = o]
              /\ UNCHANGED completed
         ELSE /\ result' = Settle(call.op, o)
              /\ call' = [call EXCEPT !.stage = "settled", !.answer = o]
              /\ UNCHANGED <<sent, commentsRaw, pending, completed>>
    /\ UNCHANGED proxy
    /\ UNCHANGED <<verifierVars, authVars>>

RenderAnswers(markdown) ==
    { Answer(200, Text(Render(markdown))), Answer(500, Null), NetworkError }

\* one render request settles: comment.body_html = await getMarkdownContent()
RenderResponse ==
    /\ call.stage \in {"awaitRender", "settled"}
    /\ \E i \in pending :
       \E o \in RenderAnswers(commentsRaw[i].body) :
         LET raw == IF Fulfilled(o)
                    THEN [commentsRaw EXCEPT ![i].body_html = o.data.val]
                    ELSE commentsRaw
             inFlight == pending \ {i}
             order == Append(completed, i)
             failed == IF Fulfilled(o) THEN call.failed ELSE call.failed \cup {i}
         IN  /\ commentsRaw' = raw
             /\ pending' = inFlight
             /\ completed' = order
             /\ IF result.kind # "pending"
                THEN /\ result' = result
                     /\ call' = [call EXCEPT !.failed = failed]
                ELSE IF ~Fulfilled(o)
                THEN /\ result' = Rejected(ErrorOf(o))
                     /\ call' = [call EXCEPT !.failed = failed, !.stage = "settled"]
                ELSE IF AllSettled(inFlight)
                THEN /\ result' = Resolved(RenderedResult(call.op, raw, order))
                     /\ call' = [call EXCEPT !.stage = "settled"]
                ELSE /\ result' = result
                     /\ call' = call
    /\ UNCHANGED <<sent, proxy>>
    /\ UNCHANGED <<verifierVars, authVars>>

(***************************************************************************)
(* Specifications                                                          *)
(***************************************************************************)

VerifierIdle ==
    /\ hasWindow = TRUE
    /\ lengthArg = [given |-> FALSE, value |-> 0]
    /\ randomArr = << >>
    /\ cvIndices = << >>
    /\ codeVerifier = << >>
    /\ cvPc = "unused"

AuthIdle ==
    /\ href = << PageBase >>
    /\ hrefAtCall = << >>
    /\ replaced = << >>
    /\ authorize = NoAuthorize
    /\ authPc = "unused"
    /\ authResult = Pending

ApiIdle ==
    /\ call = IdleCall
    /\ commentsRaw = << >>
    /\ pending = {}
    /\ completed = << >>
    /\ result = Pending

InitVerifier ==
    /\ hasWindow \in BOOLEAN
    /\ lengthArg \in LengthArgs
    /\ randomArr = << >>
    /\ cvIndices = << >>
    /\ codeVerifier = << >>
    /\ cvPc = "input"
    /\ AuthIdle
    /\ ApiIdle
    /\ proxy = "function"
    /\ sent = << >>

InitAuth ==
    /\ \E q \in PageQueries, a \in ArrivalParams, h \in Hashes :
         href \in { buildURL(<< PageBase >>, q \o a) \o h,
                    buildURL(<< PageBase >>, a \o q) \o h }
    /\ hrefAtCall = << >>
    /\ replaced = << >>
    /\ authorize = NoAuthorize
    /\ authPc = "loaded"
    /\ authResult = Pending
    /\ VerifierIdle
    /\ ApiIdle
    /\ proxy \in ProxyTypes
    /\ sent = << >>

InitApi ==
    /\ ApiIdle
    /\ VerifierIdle
    /\ AuthIdle
    /\ proxy \in ProxyTypes
    /\ sent = << >>

NextVerifier == generateCodeVerifier

NextAuth ==
    \/ handleAuth
    \/ TokenResponse
    \/ redirectAuth
    \/ ProviderRedirect

NextApi ==
    \/ getUser
    \/ getIssue
    \/ postIssue
    \/ getComments
    \/ postComment
    \/ putComment
    \/ deleteComment
    \/ getMarkdownContent
    \/ Respond
    \/ RenderResponse

SpecVerifier == InitVerifier /\ [][NextVerifier]_vars
SpecAuth == InitAuth /\ [][NextAuth]_vars
SpecApi == InitApi /\ [][NextApi]_vars

(***************************************************************************)
(* Properties                                                              *)
(***************************************************************************)

\* a reading of a browser URL that does not go through parseQuery: token i
\* lies in the query, and starts a parameter
InQuery(u, i) == IndexOfToken(u, "#") = 0 \/ i < IndexOfToken(u, "#")
HasKey(u, k) ==
    \E i \in 2..(Len(u) - 1) :
        /\ InQuery(u, i + 1)
        /\ u[i - 1] \in {"?", "&"} /\ u[i] = k /\ u[i + 1] = "="
HasParam(u, k, v) ==
    \E i \in 2..(Len(u) - 2) :
        /\ InQuery(u, i + 2)
        /\ u[i - 1] \in {"?", "&"} /\ u[i] = k /\ u[i + 1] = "=" /\ u[i + 2] = v

TokenRequests == SelectSeq(sent, LAMBDA r : r.op = "getAccessToken")
RenderRequests == SelectSeq(sent, LAMBDA r : r.op = "getMarkdownContent")

\* C1: handleAuth sends the access-token request only when the query has a
\* `code` and its `state` equals the configured state; when there is no code
\* or the state differs it returns null, sends nothing and leaves the
\* browser URL and history untouched.
C1_TokenRequestOnlyOnMatchingState ==
    /\ sent # << >> =>
          /\ HasKey(hrefAtCall, "code")
          /\ HasParam(hrefAtCall, "state", state)
    /\ ( /\ authPc = "idle"
         /\ \/ ~HasKey(hrefAtCall, "code")
            \/ ~HasParam(hrefAtCall, "state", state) ) =>
          /\ authResult = Resolved("null")
          /\ sent = << >>
          /\ replaced = << >>
          /\ href = hrefAtCall

\* handleAuth has returned on a URL carrying a code and a foreign state
C1_Witness ==
    /\ authPc = "idle"
    /\ HasKey(hrefAtCall, "code")
    /\ HasParam(hrefAtCall, "state", "evil")

OtherKeys == ParamKeys \cup {"error"}
OtherValues == ParamValues \cup {"access_denied"}

\* C2: the URL handleAuth passes to history.replaceState has neither `code`
\* nor `state`, and has every other query parameter with its value, and the
\* hash, of the URL handleAuth was entered with.
C2_ReplaceURLKeepsTheRest ==
    \A n \in 1..Len(replaced) :
        /\ ~HasKey(replaced[n], "code")
        /\ ~HasKey(replaced[n], "state")
        /\ \A k \in OtherKeys, v \in OtherValues :
              HasParam(hrefAtCall, k, v) => HasParam(replaced[n], k, v)
        /\ LocationHash(replaced[n]) = LocationHash(hrefAtCall)
        /\ replaced[n][1] = hrefAtCall[1]

\* replaceState was called for a URL with another parameter and a hash
C2_Witness ==
    /\ replaced # << >>
    /\ \E k \in ParamKeys, v \in ParamValues : HasParam(hrefAtCall, k, v)
    /\ LocationHash(hrefAtCall) # << >>

ValidCharSet == { validChars[i] : i \in 1..Len(validChars) }
Clamped(n) == IF n < 43 THEN 43 ELSE IF n > 128 THEN 128 ELSE n

\* C3: in a browser the returned string has exactly L characters, L being
\* the requested length clamped to 43..128, each drawn from the 66 valid
\* characters by an index inside that set.
C3_VerifierLengthAndAlphabet ==
    (cvPc = "returned" /\ hasWindow) =>
        /\ Len(codeVerifier) = Clamped(LengthOf(lengthArg))
        /\ \A k \in 1..Len(cvIndices) : cvIndices[k] < Len(validChars)
        /\ \A k \in 1..Len(codeVerifier) : codeVerifier[k] \in ValidCharSet

\* C4: getIssue with an issueId sends one request; a 404 gives null, a
\* success the normalized issue, any other failure the same error.
C4_GetIssueById ==
    (call.op = "getIssueById" /\ call.stage = "settled") =>
        LET a == call.answer IN
        /\ Len(sent) = 1
        /\ (a.response /\ a.status = 404) =>
              (result.kind = "resolved" /\ result.value.type = "null")
        /\ (a.response /\ a.status \in 200..299) =>
              /\ result.kind = "resolved"
              /\ result.value.type = "issue"
              /\ result.value.id = a.data.number
              /\ result.value.title = a.data.title
              /\ result.value.content = a.data.body
        /\ (~a.response \/ a.status \notin (200..299) \cup {404}) =>
              /\ result.kind = "rejected"
              /\ result.value.response = a.response
              /\ result.value.status = a.status

\* getIssue with an issueId has returned null for a 404
C4_Witness ==
    /\ call.op = "getIssueById"
    /\ call.stage = "settled"
    /\ call.answer.response /\ call.answer.status = 404
    /\ result.kind = "resolved"

\* C5: getIssue without an issueId returns the normalized first issue of a
\* listing that has at least one issue, and null only for an empty listing.
C5_GetIssueByTitle ==
    (call.op = "getIssueByTitle" /\ call.stage = "settled" /\ Fulfilled(call.answer)) =>
        /\ result.kind = "resolved"
        /\ IF Len(call.answer.data.items) > 0
           THEN /\ result.value.type = "issue"
                /\ result.value.id = call.answer.data.items[1].number
           ELSE result.value.type = "null"

\* C6: deleteComment resolves to true for a 204 and to false for a failed
\* deletion; it does not reject.
C6_DeleteCommentResolves ==
    (call.op = "deleteComment" /\ call.stage = "settled") =>
        /\ result.kind = "resolved"
        /\ result.value.val = (call.answer.response /\ call.answer.status = 204)

\* C7: every request the adapter sends goes to the proxy, whether the proxy
\* option is a function or a string.
C7_EveryRequestToProxy ==
    \A n \in 1..Len(sent) : sent[n].url.origin = ProxyOrigin

\* C8: getComments has one render request per comment in flight as soon as
\* the list arrived, resolves only when all of them completed, keeps the
\* server's order, and rejects when a render request failed.
C8_GetCommentsFanOut ==
    (call.op = "getComments" /\ Fulfilled(call.answer)) =>
        LET list == call.answer.data IN
        /\ Len(RenderRequests) = Len(list)
        /\ \A i \in 1..Len(list) : RenderRequests[i].text = list[i].body
        /\ result.kind = "resolved" =>
              /\ pending = {}
              /\ Len(completed) = Len(list)
              /\ Len(result.value.data) = Len(list)
              /\ \A i \in 1..Len(list) : result.value.data[i].id = list[i].id
        /\ call.failed # {} => result.kind = "rejected"

\* getComments resolved although the renders completed out of list order
C8_Witness ==
    /\ call.op = "getComments"
    /\ result.kind = "resolved"
    /\ Len(completed) >= 2
    /\ completed[1] # 1

\* C9: a comment returned by getComments or postComment has the rendered
\* HTML of its body as content and the markdown body as contentRaw.
C9_ContentIsRenderedHtml ==
    ( /\ call.op \in {"getComments", "postComment"}
      /\ call.stage = "settled"
      /\ result.kind = "resolved" ) =>
        LET cs == IF call.op = "getComments" THEN result.value.data
                  ELSE << result.value >>
        IN  \A i \in 1..Len(cs) :
               /\ cs[i].contentRaw = commentsRaw[i].body
               /\ cs[i].content = commentsRaw[i].body_html
               /\ cs[i].content = Render(cs[i].contentRaw)

====
